---- MODULE Spec2Model ----
(***************************************************************************)
(* StoryTeller: a bedtime-story pipeline.  main() reads a request, runs    *)
(* the graph generate_story -> evaluate_story -> apply_feedback and builds *)
(* a StoryPipelineOutput.  StoryTeller keeps the conversation history,     *)
(* StoryJudge scores a draft and gates the single revision pass.           *)
(*                                                                         *)
(* Strings are sequences of symbols.  A symbol is one character, or one    *)
(* fixed literal chunk of the program's text written "<...>".              *)
(***************************************************************************)
EXTENDS Integers, Sequences, FiniteSets, TLC

VARIABLES
    pc,            \* position of main(): the statement that runs next
    turn,          \* number of pipeline.invoke calls started so far
    history,       \* StoryTeller.history.messages
    history0,      \* history as it was when the current turn started
    state,         \* the graph's StoryState of the current invocation
    response,      \* the StoryPipelineOutput of the current turn, or None
    raised,        \* the exception that escaped main(), or None
    calls,         \* the model calls of the current turn, in order: who called with
                   \* which arguments, what the model emitted, and how the call ended
    llm_messages,  \* the message list handed to the most recent model call
    probe          \* a direct call of StoryJudge.is_ready: its arguments and result

vars == <<pc, turn, history, history0, state, response, raised, calls, llm_messages, probe>>

(***************************************************************************)
(* Bounds of the model.                                                    *)
(***************************************************************************)
MaxTurns == 2
MaxErrLen == 202
MaxThreshold == 6

None == [none |-> TRUE]

(***************************************************************************)
(* Strings.                                                                *)
(***************************************************************************)
Whitespace == {" ", "\t"}

RECURSIVE lstrip(_)
lstrip(s) ==
    IF s # <<>> /\ Head(s) \in Whitespace THEN lstrip(Tail(s)) ELSE s

RECURSIVE rstrip(_)
rstrip(s) ==
    IF s # <<>> /\ s[Len(s)] \in Whitespace
    THEN rstrip(SubSeq(s, 1, Len(s) - 1))
    ELSE s

\* str.strip(): leading and trailing whitespace removed.
strip(s) == rstrip(lstrip(s))

LowerMap ==
    ("E" :> "e") @@ ("X" :> "x") @@ ("I" :> "i") @@ ("T" :> "t") @@
    ("Q" :> "q") @@ ("U" :> "u")

\* str.lower()
lower(s) == [i \in 1..Len(s) |-> IF s[i] \in DOMAIN LowerMap THEN LowerMap[s[i]] ELSE s[i]]

\* Variant of len(story.split()): the text is split at every single whitespace
\* character, as story.split(" ") would.
split_len_at_each_separator(s) ==
    Cardinality({i \in 1..Len(s) : s[i] \in Whitespace}) + 1

\* len(story.split()): the number of maximal runs of non-whitespace.
split_len(s) ==
    Cardinality({i \in 1..Len(s) :
        /\ s[i] \notin Whitespace
        /\ (i = 1 \/ s[i - 1] \in Whitespace)})

\* s[:n]
Prefix(s, n) == SubSeq(s, 1, IF Len(s) < n THEN Len(s) ELSE n)

(***************************************************************************)
(* Messages.                                                               *)
(***************************************************************************)
SystemMessage(content) == [role |-> "system", content |-> content]
HumanMessage(content) == [role |-> "human", content |-> content]
AIMessage(content) == [role |-> "ai", content |-> content]

\* StoryTeller.system_prompt: the text of system_prompt.txt, stripped.
system_prompt == <<"<system_prompt.txt>">>

\* StoryJudge._system_prompt
judge_system_prompt == <<"<You are a careful children's literature JUDGE ...>">>

(***************************************************************************)
(* story_judge.py: Scores, StoryFeedback, StoryJudge.                      *)
(***************************************************************************)
Dims ==
    {"age_fit", "safety_sensitivity", "clarity_structure", "tone_bedtime",
     "engagement_creativity", "length_fit"}

ScoreMin == 0
ScoreMax == 5

\* Variant of Scores: the lower bound ge=0 is not enforced.
ScoresValid_no_lower_bound(raw_scores) ==
    /\ Dims \subseteq DOMAIN raw_scores
    /\ \A d \in Dims : raw_scores[d] \in Int /\ raw_scores[d] <= ScoreMax

\* class Scores: six required fields, each conint(ge=0, le=5).
ScoresValid(raw_scores) ==
    /\ Dims \subseteq DOMAIN raw_scores
    /\ \A d \in Dims : raw_scores[d] \in Int /\ raw_scores[d] >= ScoreMin /\ raw_scores[d] <= ScoreMax

\* class StoryFeedback: scores is required and validated; issues, edit_instructions
\* and metadata have defaults.
StoryFeedbackValid(raw) ==
    /\ "scores" \in DOMAIN raw
    /\ ScoresValid(raw.scores)

StoryFeedback(raw) ==
    [scores |-> [d \in Dims |-> raw.scores[d]],
     issues |-> IF "issues" \in DOMAIN raw THEN raw.issues ELSE <<>>,
     edit_instructions |->
        IF "edit_instructions" \in DOMAIN raw THEN raw.edit_instructions ELSE <<>>,
     metadata |-> IF "metadata" \in DOMAIN raw THEN raw.metadata ELSE None]

\* Keyword defaults of StoryJudge.review.
child_age == 7
tone == <<"soothing">>
length_target == 500

Metadata(age, t, target, word_count) ==
    [age |-> age, tone |-> t, target_length |-> target, word_count |-> word_count]

\* The HumanMessage content review() builds.
ReviewPrompt(user_request, age, t, target, word_count, story) ==
    <<"<Review the following bedtime story REQUEST and DRAFTED STORY ...>",
      "User request: ">> \o user_request
    \o <<"\nChild age: ", ToString(age),
         "\nTone preset: ">> \o t
    \o <<"\nTarget length (words): ", ToString(target),
         "\nDraft story word count (approx): ", ToString(word_count),
         "\n\n--- DRAFT STORY START ---\n">> \o story
    \o <<"\n--- DRAFT STORY END ---">>

ReviewMessages(user_request, story) ==
    <<SystemMessage(judge_system_prompt),
      HumanMessage(ReviewPrompt(user_request, child_age, tone, length_target,
                                split_len(story), story))>>

Min(S) == CHOOSE x \in S : \A y \in S : x <= y

\* Variant of is_ready: length_fit left out of the minimum.
is_ready_without_length_fit(feedback, threshold) ==
    LET s == feedback.scores IN
    Min({s.age_fit, s.safety_sensitivity, s.clarity_structure, s.tone_bedtime,
         s.engagement_creativity}) >= threshold

\* StoryJudge.is_ready(feedback, threshold)
is_ready(feedback, threshold) ==
    LET s == feedback.scores IN
    Min({s.age_fit, s.safety_sensitivity, s.clarity_structure, s.tone_bedtime,
         s.engagement_creativity, s.length_fit}) >= threshold

\* is_ready(feedback): the threshold parameter defaults to 4.
DefaultThreshold == 4
is_ready_default(feedback) == is_ready(feedback, DefaultThreshold)

FallbackScore == 3
ErrorLimit == 200
FallbackMarker == <<"judge_json_invalid">>
FallbackEditInstructions ==
    <<"<Revise once: simplify vocabulary, shorten sentences ... within +-15%.>">>

\* Variant of _fallback_feedback: the error text is not truncated.
fallback_feedback_untruncated(error, age, t, target, word_count) ==
    [scores |-> [d \in Dims |-> FallbackScore],
     issues |-> <<FallbackMarker, error>>,
     edit_instructions |-> FallbackEditInstructions,
     metadata |-> Metadata(age, t, target, word_count)]

\* Variant of _fallback_feedback: the error text is left out of the issues.
fallback_feedback_without_error(error, age, t, target, word_count) ==
    [scores |-> [d \in Dims |-> FallbackScore],
     issues |-> <<FallbackMarker>>,
     edit_instructions |-> FallbackEditInstructions,
     metadata |-> Metadata(age, t, target, word_count)]

\* Variant of _fallback_feedback: the fixed scores are 4, which passes the gate.
fallback_feedback_scores_pass(error, age, t, target, word_count) ==
    [scores |-> [d \in Dims |-> 4],
     issues |-> <<FallbackMarker, Prefix(error, ErrorLimit)>>,
     edit_instructions |-> FallbackEditInstructions,
     metadata |-> Metadata(age, t, target, word_count)]

\* StoryJudge._fallback_feedback
fallback_feedback(error, age, t, target, word_count) ==
    [scores |-> [d \in Dims |-> FallbackScore],
     issues |-> <<FallbackMarker, Prefix(error, ErrorLimit)>>,
     edit_instructions |-> FallbackEditInstructions,
     metadata |-> Metadata(age, t, target, word_count)]

\* The try block of review(): the structured model call returned `raw`, which the
\* StoryFeedback schema accepts; metadata is then overwritten.
review_success(raw, word_count) ==
    [StoryFeedback(raw) EXCEPT
        !.metadata = Metadata(child_age, tone, length_target, word_count)]

\* StoryJudge.review, given what the structured model call does: `out` is the
\* object it produces or the exception it raises; `verr` is the text of the
\* validation error raised when the object violates the schema.
JudgeRaises(out) == out.kind # "object" \/ ~StoryFeedbackValid(out.raw)
JudgeError(out, verr) == IF out.kind = "object" THEN verr ELSE out.error

review(user_request, story, out, verr) ==
    LET word_count == split_len(story) IN
    IF ~JudgeRaises(out)
    THEN review_success(out.raw, word_count)
    ELSE fallback_feedback(JudgeError(out, verr), child_age, tone, length_target,
                           word_count)

(***************************************************************************)
(* storyteller.py: StoryTeller.                                            *)
(***************************************************************************)
TellStoryMessages(h, user_request) ==
    <<SystemMessage(system_prompt)>> \o h \o <<HumanMessage(user_request)>>

\* Variant of tell_story: only the model's answer is persisted.
TellStoryHistory_answer_only(h, user_request, content) ==
    h \o <<AIMessage(content)>>

\* tell_story: add_user_message(user_request), add_ai_message(response.content)
TellStoryHistory(h, user_request, content) ==
    h \o <<HumanMessage(user_request), AIMessage(content)>>

revision_prompt(user_request, draft_story, feedback) ==
    <<"<You previously drafted a bedtime story. Refine it ...>",
      "Original request:\n">> \o user_request
    \o <<"\n\nDraft story:\n">> \o draft_story
    \o <<"\n\nFeedback to apply:\n">> \o feedback
    \o <<"\n\nProvide the improved story only.">>

ReviseStoryMessages(h, user_request, draft_story, feedback) ==
    <<SystemMessage(system_prompt)>> \o h
    \o <<HumanMessage(revision_prompt(user_request, draft_story, feedback))>>

\* Variant of revise_story: the revision turn takes the place of the draft's turn.
ReviseStoryHistory_overwrites_draft(h, prompt, content) ==
    SubSeq(h, 1, Len(h) - 2) \o <<HumanMessage(prompt), AIMessage(content)>>

\* Variant of revise_story: the revision turn is not persisted.
ReviseStoryHistory_not_persisted(h, prompt, content) == h

\* revise_story: add_user_message(revision_prompt), add_ai_message(response.content)
ReviseStoryHistory(h, prompt, content) ==
    h \o <<HumanMessage(prompt), AIMessage(content)>>

(***************************************************************************)
(* main.py: the graph's nodes and main().                                  *)
(***************************************************************************)
GenericRevisionNotes ==
    <<"<Revise once to better match a calm, age-appropriate bedtime tone ...>">>

\* Variant of revision_notes: no generic text when the instructions are empty.
RevisionNotes_no_generic_text(feedback) == strip(feedback.edit_instructions)

\* apply_feedback: feedback.edit_instructions.strip() or (<generic text>)
RevisionNotes(feedback) ==
    IF strip(feedback.edit_instructions) # <<>>
    THEN strip(feedback.edit_instructions)
    ELSE GenericRevisionNotes

\* Variant of needs_revision: a revision is always requested.
NeedsRevision_always(feedback) == TRUE

\* apply_feedback: needs_revision = not StoryJudge.is_ready(feedback)
NeedsRevision(feedback) == ~is_ready_default(feedback)

\* Variant of revision_performed: the negation is dropped.
RevisionPerformed_not_negated(feedback) == is_ready_default(feedback)

\* main: revision_performed = not StoryJudge.is_ready(feedback)
RevisionPerformed(feedback) == ~is_ready_default(feedback)

\* A node's return value merged into the graph state.
Update(st, key, value) == (key :> value) @@ st

StoryPipelineOutput(input, state_result) ==
    [user_request |-> input,
     initial_story |-> state_result.draft_story,
     judge_feedback |-> state_result.judge_feedback,
     final_story |-> state_result.final_story,
     revision_performed |-> RevisionPerformed(state_result.judge_feedback)]

QuitWords == {<<"e", "x", "i", "t">>, <<"q", "u", "i", "t">>}

(***************************************************************************)
(* The environment: what the user types and what the models answer.        *)
(***************************************************************************)
RawInputs ==
    {<<>>, <<" ", "\t">>, <<"a">>, <<" ", "b", " ", "c", " ">>,
     <<"e", "x", "i", "t">>, <<" ", "Q", "u", "I", "T">>}

\* What the Narrator's model can answer to a request, and to a revision message
\* (the revised text may equal a draft).
Stories == {<<"s">>, <<" ", "t", " ", "\t", "u", " ">>}
RevisedStories == {<<"s">>}

NarratorErrors == {<<"<APIConnectionError>">>, <<"<APITimeoutError>">>}

NarratorOutcomes(answers) ==
    {[kind |-> "content", content |-> c] : c \in answers}
    \cup {[kind |-> "error", error |-> e] : e \in NarratorErrors}

ErrAlphabet == <<"e", "r", "x">>
ErrorText(n) == [i \in 1..n |-> ErrAlphabet[(i % 3) + 1]]
ErrLens == {0, ErrorLimit - 1, ErrorLimit, ErrorLimit + 1, MaxErrLen}
ErrorTexts == {ErrorText(n) : n \in ErrLens}

ProbeDims == {"age_fit", "length_fit"}
AllAt(v) == [d \in Dims |-> v]
\* Score objects the schema accepts: uniform ones, and one low dimension.
GoodScores ==
    {AllAt(v) : v \in {3, 4, 5}}
    \cup {[AllAt(5) EXCEPT ![p] = 0] : p \in ProbeDims}
\* Score objects the schema rejects: one score out of range, or one missing.
BadScores ==
    {[AllAt(5) EXCEPT ![p] = v] : p \in ProbeDims, v \in {-1, 6}}
    \cup {[d \in Dims \ {p} |-> 5] : p \in ProbeDims}
RawIssues == {<< <<"i">> >>}
RawEdits == {<<>>, <<" ", "\t">>, <<" ", "a", " ", "b", "\t">>}

\* What the judge's model can emit for the StoryFeedback tool.
RawResponses ==
    {[scores |-> s, issues |-> i, edit_instructions |-> e] :
        s \in GoodScores, i \in RawIssues, e \in RawEdits}
    \cup {[scores |-> s, issues |-> i, edit_instructions |-> <<"a">>] :
        s \in BadScores, i \in RawIssues}
    \cup {[scores |-> AllAt(5)]}
    \cup {[scores |-> AllAt(5), metadata |-> [word_count |-> 99]]}
    \cup {[issues |-> i] : i \in RawIssues}

JudgeOutcomes ==
    {[kind |-> "object", raw |-> r] : r \in RawResponses}
    \cup {[kind |-> k, error |-> e] : k \in {"call_error", "timeout"}, e \in ErrorTexts}

\* The texts a schema violation of `out` can raise; no text when there is none.
ValidationErrors(out) ==
    IF out.kind = "object" /\ ~StoryFeedbackValid(out.raw)
    THEN {ErrorText(MaxErrLen)}
    ELSE {<<>>}

Idle == [op |-> "idle"]

\* One entry of `calls`.  emitted: the model's output, None when the call itself
\* failed.  outcome, value: "returned" with the value the call gave its caller, or
\* "raised" with the text of the exception.
Call(fn, args, emitted, outcome, value) ==
    [fn |-> fn, args |-> args, emitted |-> emitted, outcome |-> outcome, value |-> value]

\* The entry of `calls` for the structured model call review() makes.
ReviewCall(user_request, story, out, verr) ==
    Call("review", <<user_request, story>>,
         IF out.kind = "object" THEN out.raw ELSE None,
         IF JudgeRaises(out) THEN "raised" ELSE "returned",
         IF JudgeRaises(out) THEN JudgeError(out, verr)
         ELSE review(user_request, story, out, verr))

(***************************************************************************)
(* The state machine.                                                      *)
(***************************************************************************)
Init ==
    /\ pc = "input"
    /\ turn = 0
    /\ history = <<>>
    /\ history0 = <<>>
    /\ state = <<>>
    /\ response = None
    /\ raised = None
    /\ calls = <<>>
    /\ llm_messages = <<>>
    /\ probe = Idle

\* main, lines 107-122: read a line; skip an empty one, stop on exit/quit,
\* otherwise invoke the pipeline on {"user_request": user_input}.
read_input ==
    /\ pc = "input"
    /\ \E raw \in RawInputs :
        LET user_input == strip(raw) IN
        IF user_input = <<>>
        THEN UNCHANGED vars
        ELSE IF lower(user_input) \in QuitWords
        THEN /\ pc' = "done"
             /\ UNCHANGED <<turn, history, history0, state, response, raised, calls,
                         llm_messages, probe>>
        ELSE /\ turn < MaxTurns
             /\ pc' = "generate_story"
             /\ turn' = turn + 1
             /\ state' = [user_request |-> user_input]
             /\ response' = None
             /\ calls' = <<>>
             /\ history0' = history
             /\ UNCHANGED <<history, raised, llm_messages, probe>>

\* Variant of generate_story: tell_story persists the request before it calls the
\* model, so a failed call leaves the request in the history.
generate_story_persists_request_first ==
    /\ pc = "generate_story"
    /\ \E out \in NarratorOutcomes(Stories) :
        /\ llm_messages' = TellStoryMessages(history, state.user_request)
        /\ IF out.kind = "content"
           THEN /\ history' = TellStoryHistory(history, state.user_request, out.content)
                /\ state' = Update(state, "draft_story", out.content)
                /\ calls' = Append(calls, Call("tell_story", <<state.user_request>>,
                                                out.content, "returned", out.content))
                /\ pc' = "evaluate_story"
                /\ UNCHANGED raised
           ELSE /\ history' = history \o <<HumanMessage(state.user_request)>>
                /\ raised' = [error |-> out.error, from |-> "tell_story"]
                /\ calls' = Append(calls, Call("tell_story", <<state.user_request>>,
                                                None, "raised", out.error))
                /\ pc' = "crashed"
                /\ UNCHANGED state
    /\ UNCHANGED <<turn, history0, response, probe>>

\* Variant of generate_story: a failed model call is swallowed and an empty draft
\* is handed on.
generate_story_swallows_failure ==
    /\ pc = "generate_story"
    /\ \E out \in NarratorOutcomes(Stories) :
        /\ llm_messages' = TellStoryMessages(history, state.user_request)
        /\ IF out.kind = "content"
           THEN /\ history' = TellStoryHistory(history, state.user_request, out.content)
                /\ state' = Update(state, "draft_story", out.content)
                /\ calls' = Append(calls, Call("tell_story", <<state.user_request>>,
                                                out.content, "returned", out.content))
           ELSE /\ state' = Update(state, "draft_story", <<>>)
                /\ calls' = Append(calls, Call("tell_story", <<state.user_request>>,
                                                None, "raised", out.error))
                /\ UNCHANGED history
    /\ pc' = "evaluate_story"
    /\ UNCHANGED <<turn, history0, response, raised, probe>>

\* generate_story node: storyteller.tell_story(state["user_request"]).
generate_story ==
    /\ pc = "generate_story"
    /\ \E out \in NarratorOutcomes(Stories) :
        /\ llm_messages' = TellStoryMessages(history, state.user_request)
        /\ IF out.kind = "content"
           THEN /\ history' = TellStoryHistory(history, state.user_request, out.content)
                /\ state' = Update(state, "draft_story", out.content)
                /\ calls' = Append(calls, Call("tell_story", <<state.user_request>>,
                                                out.content, "returned", out.content))
                /\ pc' = "evaluate_story"
                /\ UNCHANGED raised
           ELSE /\ raised' = [error |-> out.error, from |-> "tell_story"]
                /\ calls' = Append(calls, Call("tell_story", <<state.user_request>>,
                                                None, "raised", out.error))
                /\ pc' = "crashed"
                /\ UNCHANGED <<history, state>>
    /\ UNCHANGED <<turn, history0, response, probe>>

\* Variant of evaluate_story: review() has no except clause, so a failed
\* structured call escapes.
evaluate_story_uncaught ==
    /\ pc = "evaluate_story"
    /\ \E out \in JudgeOutcomes : \E verr \in ValidationErrors(out) :
        /\ llm_messages' = ReviewMessages(state.user_request, state.draft_story)
        /\ calls' = Append(calls, ReviewCall(state.user_request, state.draft_story,
                                              out, verr))
        /\ IF JudgeRaises(out)
           THEN /\ raised' = [error |-> JudgeError(out, verr), from |-> "review"]
                /\ pc' = "crashed"
                /\ UNCHANGED state
           ELSE /\ state' = Update(state, "judge_feedback",
                                   review(state.user_request, state.draft_story, out, verr))
                /\ pc' = "apply_feedback"
                /\ UNCHANGED raised
    /\ UNCHANGED <<turn, history, history0, response, probe>>

\* evaluate_story node: story_judge.review(state["user_request"], state["draft_story"]).
evaluate_story ==
    /\ pc = "evaluate_story"
    /\ \E out \in JudgeOutcomes : \E verr \in ValidationErrors(out) :
        /\ llm_messages' = ReviewMessages(state.user_request, state.draft_story)
        /\ state' = Update(state, "judge_feedback",
                           review(state.user_request, state.draft_story, out, verr))
        /\ calls' = Append(calls, ReviewCall(state.user_request, state.draft_story,
                                              out, verr))
    /\ pc' = "apply_feedback"
    /\ UNCHANGED <<turn, history, history0, response, raised, probe>>

\* Variant of apply_feedback: the revised story becomes the draft and goes back
\* to the judge, until it is ready.
apply_feedback_rejudges ==
    /\ pc = "apply_feedback"
    /\ LET feedback == state.judge_feedback IN
       IF NeedsRevision(feedback)
       THEN \E out \in NarratorOutcomes(RevisedStories) :
            LET notes == RevisionNotes(feedback)
                prompt == revision_prompt(state.user_request, state.draft_story, notes)
                args == <<state.user_request, state.draft_story, notes>>
            IN
            /\ llm_messages' =
                   ReviseStoryMessages(history, state.user_request, state.draft_story, notes)
            /\ IF out.kind = "content"
               THEN /\ history' = ReviseStoryHistory(history, prompt, out.content)
                    /\ state' = Update(state, "draft_story", out.content)
                    /\ calls' = Append(calls, Call("revise_story", args, out.content,
                                                    "returned", out.content))
                    /\ pc' = "evaluate_story"
                    /\ UNCHANGED raised
               ELSE /\ raised' = [error |-> out.error, from |-> "revise_story"]
                    /\ calls' = Append(calls, Call("revise_story", args, None,
                                                    "raised", out.error))
                    /\ pc' = "crashed"
                    /\ UNCHANGED <<history, state>>
       ELSE /\ state' = Update(state, "final_story", state.draft_story)
            /\ pc' = "output"
            /\ UNCHANGED <<history, raised, calls, llm_messages>>
    /\ UNCHANGED <<turn, history0, response, probe>>

\* apply_feedback node.
apply_feedback ==
    /\ pc = "apply_feedback"
    /\ LET feedback == state.judge_feedback IN
       IF NeedsRevision(feedback)
       THEN \E out \in NarratorOutcomes(RevisedStories) :
            LET notes == RevisionNotes(feedback)
                prompt == revision_prompt(state.user_request, state.draft_story, notes)
                args == <<state.user_request, state.draft_story, notes>>
            IN
            /\ llm_messages' =
                   ReviseStoryMessages(history, state.user_request, state.draft_story, notes)
            /\ IF out.kind = "content"
               THEN /\ history' = ReviseStoryHistory(history, prompt, out.content)
                    /\ state' = Update(state, "final_story", out.content)
                    /\ calls' = Append(calls, Call("revise_story", args, out.content,
                                                    "returned", out.content))
                    /\ pc' = "output"
                    /\ UNCHANGED raised
               ELSE /\ raised' = [error |-> out.error, from |-> "revise_story"]
                    /\ calls' = Append(calls, Call("revise_story", args, None,
                                                    "raised", out.error))
                    /\ pc' = "crashed"
                    /\ UNCHANGED <<history, state>>
       ELSE /\ state' = Update(state, "final_story", state.draft_story)
            /\ pc' = "output"
            /\ UNCHANGED <<history, raised, calls, llm_messages>>
    /\ UNCHANGED <<turn, history0, response, probe>>

\* main, lines 124-136: build the StoryPipelineOutput; the loop then reads again.
build_output ==
    /\ pc = "output"
    /\ response' = StoryPipelineOutput(state.user_request, state)
    /\ pc' = "input"
    /\ UNCHANGED <<turn, history, history0, state, raised, calls, llm_messages, probe>>

Next ==
    \/ read_input
    \/ generate_story
    \/ evaluate_story
    \/ apply_feedback
    \/ build_output

Spec == Init /\ [][Next]_vars

(***************************************************************************)
(* StoryJudge.is_ready called directly, on every score combination.        *)
(***************************************************************************)
ScoreRange == ScoreMin..ScoreMax
Thresholds == (ScoreMin - 1)..MaxThreshold

\* StoryJudge.is_ready(feedback, threshold)
call_is_ready ==
    /\ probe = Idle
    /\ \E s \in [Dims -> ScoreRange], t \in Thresholds :
        probe' = [op |-> "is_ready", scores |-> s, threshold |-> t,
                  result |-> is_ready([scores |-> s], t)]
    /\ UNCHANGED <<pc, turn, history, history0, state, response, raised, calls,
                   llm_messages>>

\* StoryJudge.is_ready(feedback)
call_is_ready_default ==
    /\ probe = Idle
    /\ \E s \in [Dims -> ScoreRange] :
        probe' = [op |-> "is_ready_default", scores |-> s,
                  result |-> is_ready_default([scores |-> s])]
    /\ UNCHANGED <<pc, turn, history, history0, state, response, raised, calls,
                   llm_messages>>

NextReady ==
    \/ call_is_ready
    \/ call_is_ready_default

SpecReady == Init /\ [][NextReady]_vars

(***************************************************************************)
(* Properties.                                                             *)
(***************************************************************************)
Last(seq) == seq[Len(seq)]
CallsOf(fn) == {i \in 1..Len(calls) : calls[i].fn = fn}
HasFeedback == "judge_feedback" \in DOMAIN state
Finalized == "final_story" \in DOMAIN state
AllScoresAtLeast(scores, t) == \A d \in Dims : scores[d] >= t

\* C1: for all six scores in 0..5 and every threshold, is_ready is true exactly
\* when every score is >= the threshold, so one low score makes it false
\* whatever the other five are; called without a threshold it uses 4.
C1_IsReadyIffAllScoresReachThreshold ==
    /\ probe.op = "is_ready" =>
        (probe.result <=> AllScoresAtLeast(probe.scores, probe.threshold))
    /\ probe.op = "is_ready_default" =>
        (probe.result <=> AllScoresAtLeast(probe.scores, 4))

C1_Witness ==
    /\ probe.op = "is_ready"
    /\ probe.threshold = 4
    /\ probe.scores = [AllAt(5) EXCEPT !["length_fit"] = 3]
    /\ probe.result = FALSE

\* C2: in a turn whose feedback is not ready and whose Narrator calls all
\* return, the model calls are exactly generate, judge, revise (one revise, no
\* second judge call), final_story is what that revise returned, and
\* revision_performed is true.
C2_NotReadyRevisesExactlyOnce ==
    (Finalized /\ ~AllScoresAtLeast(state.judge_feedback.scores, 4)) =>
        /\ Len(calls) = 3
        /\ <<calls[1].fn, calls[2].fn, calls[3].fn>> = <<"tell_story", "review", "revise_story">>
        /\ calls[3].outcome = "returned"
        /\ state.final_story = calls[3].emitted
        /\ response # None =>
            /\ response.revision_performed = TRUE
            /\ response.final_story = calls[3].emitted

\* The revised story would itself be judged, were there a second round: here the
\* turn is over after one revise although the feedback was not ready.
C2_Witness ==
    /\ pc = "input"
    /\ response # None
    /\ response.revision_performed
    /\ response.judge_feedback.scores = [AllAt(5) EXCEPT !["age_fit"] = 0]
    /\ response.final_story # response.initial_story

\* C3: in a turn whose feedback is ready, revise is never called, final_story
\* is the draft generate returned, and revision_performed is false.
C3_ReadyPassesDraftThrough ==
    (HasFeedback /\ AllScoresAtLeast(state.judge_feedback.scores, 4)) =>
        /\ CallsOf("revise_story") = {}
        /\ Finalized =>
            /\ state.final_story = state.draft_story
            /\ state.final_story = calls[1].emitted
        /\ response # None =>
            /\ response.revision_performed = FALSE
            /\ response.final_story = response.initial_story
            /\ response.initial_story = calls[1].emitted

C3_Witness ==
    /\ pc = "input"
    /\ response # None
    /\ response.judge_feedback.scores = AllAt(4)
    /\ response.final_story = response.initial_story
    /\ ~response.revision_performed

JudgeCallRaised == HasFeedback /\ calls[2].outcome = "raised"

\* C4: when the judge's structured model call fails (call error, timeout or
\* schema violation), review does not raise: it returns the fallback Feedback,
\* and the model is called once only.
C4_JudgeFailureIsAbsorbed ==
    \A i \in CallsOf("review") :
        calls[i].outcome = "raised" =>
            /\ Cardinality(CallsOf("review")) = 1
            /\ pc # "evaluate_story"
            /\ raised = None \/ raised.from # "review"
            /\ HasFeedback
            /\ state.judge_feedback.scores = AllAt(3)
            /\ state.judge_feedback.issues[1] = <<"judge_json_invalid">>
            /\ state.judge_feedback.edit_instructions = FallbackEditInstructions

\* A schema violation: the model emitted an object, and the call still raised.
C4_Witness ==
    /\ pc = "apply_feedback"
    /\ calls[2].fn = "review"
    /\ calls[2].outcome = "raised"
    /\ calls[2].emitted # None
    /\ state.judge_feedback.scores = AllAt(3)

\* C5: the fallback Feedback has every score 3, is not ready at any threshold
\* >= 4, and its issues are the marker "judge_json_invalid" followed by the
\* first 200 characters of the error description.
C5_FallbackFeedbackShape ==
    JudgeCallRaised =>
        LET fb == state.judge_feedback
            e == calls[2].value
        IN
        /\ \A d \in Dims : fb.scores[d] = 3
        /\ \A t \in 4..MaxThreshold : ~is_ready(fb, t)
        /\ Len(fb.issues) = 2
        /\ fb.issues[1] = <<"judge_json_invalid">>
        /\ Len(fb.issues[2]) <= 200
        /\ fb.issues[2] = SubSeq(e, 1, Len(fb.issues[2]))
        /\ Len(e) <= 200 => fb.issues[2] = e
        /\ Len(e) > 200 => Len(fb.issues[2]) = 200

C5_Witness ==
    /\ JudgeCallRaised
    /\ Len(calls[2].value) > 200
    /\ Len(state.judge_feedback.issues[2]) = 200

\* C7: a failed model call in tell_story or revise_story is not caught: it
\* escapes main, the turn produces no StoryPipelineOutput, and nothing runs
\* after it (after a failed generate there is no judge call).
C7_NarratorFailurePropagates ==
    \A i \in 1..Len(calls) :
        (calls[i].fn \in {"tell_story", "revise_story"} /\ calls[i].outcome = "raised") =>
            /\ i = Len(calls)
            /\ pc = "crashed"
            /\ raised = [error |-> calls[i].value, from |-> calls[i].fn]
            /\ response = None
            /\ ~Finalized
            /\ calls[i].fn = "tell_story" =>
                /\ CallsOf("review") = {}
                /\ ~HasFeedback
                /\ "draft_story" \notin DOMAIN state

C7_Witness ==
    /\ pc = "crashed"
    /\ turn = 2
    /\ raised.from = "tell_story"
    /\ Len(calls) = 1

\* C10: every Feedback the judge returns has all six scores, each in 0..5; an
\* emitted object with a score outside 0..5 or a score missing counts as a
\* failed call and is replaced by the fallback Feedback.
EmittedViolatesScores(raw) ==
    \/ "scores" \notin DOMAIN raw
    \/ \E d \in Dims : d \notin DOMAIN raw.scores \/ raw.scores[d] \notin 0..5

C10_ReturnedScoresInRange ==
    HasFeedback =>
        /\ DOMAIN state.judge_feedback.scores = Dims
        /\ \A d \in Dims : state.judge_feedback.scores[d] \in 0..5
        /\ (calls[2].emitted # None /\ EmittedViolatesScores(calls[2].emitted)) =>
            /\ calls[2].outcome = "raised"
            /\ state.judge_feedback.scores = AllAt(3)
            /\ state.judge_feedback.issues[1] = <<"judge_json_invalid">>

C10_Witness ==
    /\ HasFeedback
    /\ calls[2].emitted # None
    /\ "scores" \in DOMAIN calls[2].emitted
    /\ DOMAIN calls[2].emitted.scores = Dims
    /\ calls[2].emitted.scores["age_fit"] = -1
    /\ state.judge_feedback.scores = AllAt(3)

\* t is s without its leading and trailing whitespace.
IsStripOf(t, s) ==
    \E i \in 1..(Len(s) + 1) : \E j \in 0..Len(s) :
        /\ t = SubSeq(s, i, j)
        /\ \A k \in 1..(i - 1) : s[k] \in Whitespace
        /\ \A k \in (j + 1)..Len(s) : s[k] \in Whitespace
        /\ t # <<>> => (t[1] \notin Whitespace /\ t[Len(t)] \notin Whitespace)

\* C6: the instructions revise is called with are feedback.edit_instructions
\* with leading and trailing whitespace stripped when that is non-empty, and
\* the fixed generic text when it is empty or only whitespace; they are never
\* empty, and revise gets the original request and the draft the judge saw.
C6_ReviseInstructionsStripped ==
    \A i \in CallsOf("revise_story") :
        LET edit == state.judge_feedback.edit_instructions
            args == calls[i].args
        IN
        /\ IsStripOf(<<>>, edit) => args[3] = GenericRevisionNotes
        /\ ~IsStripOf(<<>>, edit) => IsStripOf(args[3], edit)
        /\ args[3] # <<>>
        /\ args[1] = state.user_request
        /\ args[1] = calls[1].args[1]
        /\ args[2] = calls[2].args[2]
        /\ args[2] = calls[1].emitted

C6_Witness ==
    /\ CallsOf("revise_story") # {}
    /\ state.judge_feedback.edit_instructions = <<" ", "a", " ", "b", "\t">>
    /\ Last(calls).args[3] = <<"a", " ", "b">>

\* C6 as stated: the instructions are feedback.edit_instructions itself when
\* that string is non-empty, and the generic text when it is empty.
C6_Original_InstructionsUnchanged ==
    \A i \in CallsOf("revise_story") :
        LET edit == state.judge_feedback.edit_instructions
            args == calls[i].args
        IN
        /\ args[3] = IF edit # <<>> THEN edit ELSE GenericRevisionNotes
        /\ args[3] # <<>>
        /\ args[1] = state.user_request
        /\ args[2] = calls[2].args[2]

IsInfix(sub, s) ==
    \E i \in 0..(Len(s) - Len(sub)) : SubSeq(s, i + 1, i + Len(sub)) = sub

SystemTurn == [role |-> "system", content |-> <<"<system_prompt.txt>">>]
UserTurn(text) == [role |-> "human", content |-> text]
AssistantTurn(text) == [role |-> "ai", content |-> text]

\* C8: a successful generate(request) on history H calls the model with
\* [system] ++ H ++ [request], returns the model's answer, and leaves the
\* history H ++ [request, answer].
C8_GenerateMessagesAndHistory ==
    [][(pc = "generate_story" /\ pc' = "evaluate_story") =>
        LET request == state.user_request
            answer == Last(calls').emitted
        IN
        /\ Len(calls') = Len(calls) + 1
        /\ Last(calls').fn = "tell_story"
        /\ llm_messages' = <<SystemTurn>> \o history \o <<UserTurn(request)>>
        /\ state'.draft_story = answer
        /\ history' = history \o <<UserTurn(request), AssistantTurn(answer)>>]_vars

C8_Witness ==
    /\ pc = "evaluate_story"
    /\ turn = 2
    /\ Len(history0) >= 4
    /\ Len(history) = Len(history0) + 2

NarratorCalled == Len(calls') = Len(calls) + 1 /\ Last(calls').fn # "review"

\* C9: a successful revise on history H calls the model with [system] ++ H ++
\* [synthetic revision message] and leaves the history H ++ [that message,
\* revised text]; the turn has then grown the history by two pairs, and every
\* Narrator call is given the whole history, revision messages included.
C9_ReviseMessagesAndHistory ==
    [][/\ (pc = "apply_feedback" /\ pc' = "output" /\ Len(calls') = Len(calls) + 1) =>
            LET m == Last(llm_messages')
                revised == Last(calls').emitted
            IN
            /\ Last(calls').fn = "revise_story"
            /\ m.role = "human"
            /\ IsInfix(state.user_request, m.content)
            /\ IsInfix(state.draft_story, m.content)
            /\ IsInfix(Last(calls').args[3], m.content)
            /\ llm_messages' = <<SystemTurn>> \o history \o <<m>>
            /\ state'.final_story = revised
            /\ history' = history \o <<m, AssistantTurn(revised)>>
            /\ Len(history') = Len(history0) + 4
            /\ SubSeq(history', 1, Len(history0)) = history0
       /\ NarratorCalled =>
            /\ Len(llm_messages') = Len(history) + 2
            /\ \A i \in 1..Len(history) : llm_messages'[i + 1] = history[i]]_vars

IsRevisionMessage(m) ==
    m.role = "human" /\ IsInfix(<<"\n\nFeedback to apply:\n">>, m.content)

\* A generate call of the second turn that was handed the first turn's revision
\* message.
C9_Witness ==
    /\ pc = "evaluate_story"
    /\ turn = 2
    /\ Len(history0) = 4
    /\ IsRevisionMessage(history0[3])
    /\ llm_messages[4] = history0[3]

\* The whitespace-delimited tokens of s, counted left to right.
RECURSIVE TokenCount(_, _)
TokenCount(s, in_token) ==
    IF s = <<>> THEN 0
    ELSE IF Head(s) \in {" ", "\t"} THEN TokenCount(Tail(s), FALSE)
    ELSE (IF in_token THEN 0 ELSE 1) + TokenCount(Tail(s), TRUE)

\* C11: the metadata of the Feedback review returns is {age, tone,
\* target_length, word_count}, on the successful and on the fallback path, and
\* word_count is the number of whitespace-delimited tokens of the story passed in.
C11_MetadataWordCount ==
    HasFeedback =>
        LET story == calls[2].args[2] IN
        /\ story = state.draft_story
        /\ state.judge_feedback.metadata =
               [age |-> 7, tone |-> <<"soothing">>, target_length |-> 500,
                word_count |-> TokenCount(story, FALSE)]
        /\ response # None => response.judge_feedback.metadata = state.judge_feedback.metadata

\* The successful path, on a story with leading, doubled and trailing
\* whitespace, where the model had emitted a metadata of its own.
C11_Witness ==
    /\ HasFeedback
    /\ calls[2].outcome = "returned"
    /\ "metadata" \in DOMAIN calls[2].emitted
    /\ state.draft_story = <<" ", "t", " ", "\t", "u", " ">>
    /\ state.judge_feedback.metadata.word_count = 2

StageOrder == <<"tell_story", "review", "revise_story">>

StageSteps ==
    {<<"input", "generate_story">>, <<"input", "done">>,
     <<"generate_story", "evaluate_story">>, <<"generate_story", "crashed">>,
     <<"evaluate_story", "apply_feedback">>,
     <<"apply_feedback", "output">>, <<"apply_feedback", "crashed">>,
     <<"output", "input">>}

\* C12: a turn goes generate -> evaluate -> finalize, each stage once and each
\* after the one before has completed, with no step back to generate or
\* evaluate; the judge is given the draft generate returned for this turn's
\* request; a turn whose model calls all return is finalized, after at most
\* three model calls.
C12_StagesInFixedOrder ==
    [][/\ <<pc, pc'>> \in StageSteps
       /\ Len(calls') <= 3
       /\ \A i \in 1..Len(calls') : calls'[i].fn = StageOrder[i]
       /\ \A i \in 1..(Len(calls') - 1) :
            calls'[i].outcome = "returned" \/ calls'[i].fn = "review"
       /\ pc = "evaluate_story" =>
            /\ Len(calls') = 2
            /\ calls'[1].args = <<state.user_request>>
            /\ calls'[2].args = <<state.user_request, calls'[1].emitted>>
       /\ pc' = "crashed" => Last(calls').outcome = "raised"
       /\ pc = "apply_feedback" =>
            (Last(calls').outcome = "returned" => (pc' = "output" /\ Finalized'))]_vars

C12_Witness ==
    /\ pc = "output"
    /\ turn = 2
    /\ Len(calls) = 3
    /\ Finalized

TurnEnded == pc \in {"input", "done", "crashed"}

RevisedOnceWithFallbackInstructions ==
    /\ Len(calls) = 3
    /\ CallsOf("revise_story") = {3}
    /\ calls[3].args[3] = FallbackEditInstructions
    /\ calls[3].args[3] # GenericRevisionNotes

\* C13: when the judge's model call fails, the fallback Feedback (all 3) fails
\* the gate at 4, so revise is called exactly once, with the fallback's own
\* edit instructions and not the pipeline's generic text; if that revise call
\* returns the turn ends with revision_performed = true, and if it fails the
\* turn ends with the failure and no output.
C13_JudgeFailureForcesOneRevision ==
    JudgeCallRaised =>
        /\ ~AllScoresAtLeast(state.judge_feedback.scores, 4)
        /\ pc # "apply_feedback" =>
            /\ RevisedOnceWithFallbackInstructions
            /\ calls[3].outcome = "returned" =>
                /\ Finalized
                /\ pc # "crashed"
                /\ TurnEnded => (response # None /\ response.revision_performed = TRUE)
            /\ calls[3].outcome = "raised" =>
                /\ pc = "crashed"
                /\ response = None

C13_Witness ==
    /\ pc = "input"
    /\ JudgeCallRaised
    /\ RevisedOnceWithFallbackInstructions
    /\ response # None
    /\ response.revision_performed

\* C13 as stated: every turn in which the judge's model call fails ends with
\* revision_performed = true.
C13_Original_AlwaysEndsRevised ==
    (JudgeCallRaised /\ TurnEnded) =>
        /\ RevisedOnceWithFallbackInstructions
        /\ response # None
        /\ response.revision_performed = TRUE

IsPrefix(a, b) == Len(a) <= Len(b) /\ SubSeq(b, 1, Len(a)) = a

\* Whole request/response pairs: user, assistant, user, assistant, ...
Alternating(h) ==
    /\ Len(h) % 2 = 0
    /\ \A i \in 1..Len(h) : h[i].role = IF i % 2 = 1 THEN "human" ELSE "ai"

NarratorReturned == NarratorCalled /\ Last(calls').outcome = "returned"

ReturnedNarratorCalls(cs) ==
    {i \in 1..Len(cs) : cs[i].fn # "review" /\ cs[i].outcome = "returned"}

\* C14: the history only grows at its end, always holds whole user/assistant
\* pairs, grows by exactly one pair with each successful generate or revise
\* call and by nothing otherwise; the judge's evaluate step and the readiness
\* check leave it unchanged.
C14_HistoryAppendOnly ==
    [][/\ IsPrefix(history, history')
       /\ Alternating(history')
       /\ NarratorReturned => Len(history') = Len(history) + 2
       /\ ~NarratorReturned => history' = history
       /\ IsPrefix(history0', history')
       /\ Len(history') = Len(history0') + 2 * Cardinality(ReturnedNarratorCalls(calls'))
       /\ pc \in {"evaluate_story", "output"} => history' = history]_vars

C14_Witness ==
    /\ pc = "output"
    /\ turn = 2
    /\ Len(history0) = 4
    /\ Len(history) = 8

First200(e) == SubSeq(e, 1, IF Len(e) > 200 THEN 200 ELSE Len(e))

CarriesError(feedback, e) ==
    /\ Len(feedback.issues) = 2
    /\ feedback.issues[1] = <<"judge_json_invalid">>
    /\ feedback.issues[2] = First200(e)

NarratorRaised == NarratorCalled /\ Last(calls').outcome = "raised"

\* C16: a generate or revise call whose model call fails appends nothing to the
\* history.  A turn that fails in generate leaves the history as it was before
\* the turn; a turn that fails in revise leaves it with the (request, draft)
\* pair of generate appended and nothing else, never a request without its
\* response.
C16_FailedCallAppendsNothing ==
    [][NarratorRaised =>
        /\ history' = history
        /\ pc' = "crashed"
        /\ Last(calls').fn = "tell_story" => history' = history0
        /\ Last(calls').fn = "revise_story" =>
            /\ history' = history0 \o <<UserTurn(state.user_request),
                                       AssistantTurn(state.draft_story)>>
            /\ state.draft_story = calls[1].emitted
        /\ Len(history') % 2 = 0
        /\ history' # <<>> => Last(history').role = "ai"]_vars

C16_Witness ==
    /\ pc = "crashed"
    /\ turn = 2
    /\ raised.from = "revise_story"
    /\ Len(history0) = 2
    /\ Len(history) = 4

====
